---- MODULE Spec2Model ----
(***************************************************************************)
(* Model of build_tools/_therock_utils/artifact_builder.py: the descriptor *)
(* model (ArtifactDescriptor and its children), the classification engine  *)
(* (ComponentScanner.__init__ and _populate_component), the lint pass      *)
(* (ComponentScanner.verify) and materialization                           *)
(* (ComponentContents.write_artifact).                                     *)
(*                                                                         *)
(* A loaded descriptor document is a nested key/value table.  A table is a *)
(* sequence of [k, v] pairs (a Python dict keeps insertion order); a value *)
(* is one of [s |-> string], [l |-> sequence of strings], [b |-> BOOLEAN], *)
(* [kv |-> table]; an absent key reads as NoneV.                           *)
(***************************************************************************)
EXTENDS Integers, Sequences, FiniteSets, TLC

VARIABLES
    record,            \* the loaded descriptor document (input)
    tree,              \* the staged tree under root_dir (input): basedir -> entries or Missing
    system,            \* platform.system() (input)
    pc,                \* position of the run
    ad,                \* the ArtifactDescriptor once parsed
    basedir_cache,     \* ComponentScanner.basedir_cache: basedir -> scanned entries
    components,        \* ComponentScanner.components, in insertion order
    all_entries,       \* ComponentScanner.all_entries: relpath -> first DirEntry seen
    matched_relpaths,  \* ComponentScanner.matched_relpaths
    missing_basedirs,  \* ComponentScanner.missing_basedirs
    worklist,          \* __init__'s worklist
    next_worklist,     \* __init__'s next_worklist
    forward_progress,  \* __init__'s forward_progress
    wi,                \* index of `cd` in the for loop over worklist
    contents,          \* _populate_component's ComponentContents under construction
    bi,                \* index of `bd` in the for loop over cd.basedirs
    pending,           \* entries of pm.matches() not yet iterated
    walks,             \* number of add_basedir walks made per basedir
    error,             \* the ValueError raised, or NoError
    passes,            \* number of passes over the worklist that __init__ has started
    artifact,          \* what write_artifact wrote under its destination, or NoArtifact
    previous           \* the results of an earlier ComponentScanner over the same inputs, or NoRun

vars == <<record, tree, system, pc, ad, basedir_cache, components, all_entries,
          matched_relpaths, missing_basedirs, worklist, next_worklist,
          forward_progress, wi, contents, bi, pending, walks, error, passes,
          artifact, previous>>

----------------------------------------------------------------------------
\* Document values.

NoneV == [none |-> TRUE]
Str(x) == [s |-> x]
List(x) == [l |-> x]
Bool(x) == [b |-> x]
Table(x) == [kv |-> x]
KV(key, value) == [k |-> key, v |-> value]

IsNone(v) == "none" \in DOMAIN v
IsStr(v) == "s" \in DOMAIN v
IsList(v) == "l" \in DOMAIN v
IsBool(v) == "b" \in DOMAIN v
IsTable(v) == "kv" \in DOMAIN v

HasKey(kv, key) == \E i \in 1..Len(kv) : kv[i].k = key

\* dict.get(key): the value, or None.
get(kv, key) ==
    IF HasKey(kv, key)
    THEN kv[CHOOSE i \in 1..Len(kv) : kv[i].k = key].v
    ELSE NoneV

\* Python truthiness of a document value.
bool(v) ==
    IF IsNone(v) THEN FALSE
    ELSE IF IsBool(v) THEN v.b
    ELSE IF IsStr(v) THEN v.s # ""
    ELSE IF IsList(v) THEN v.l # <<>>
    ELSE v.kv # <<>>

Ok(x) == [ok |-> TRUE, val |-> x]
ValueError(x) == [ok |-> FALSE, error |-> x]
NoError == [kind |-> "none"]

SeqToSet(s) == {s[i] : i \in 1..Len(s)}

MinOf(S) == CHOOSE x \in S : \A y \in S : x <= y

----------------------------------------------------------------------------
\* The default policy registry, ComponentDefaults.ALL, in definition order.

RegistryNames == <<"lib", "run", "dbg", "dev", "doc">>

DefaultIncludes(name) ==
    CASE name = "lib" -> <<"**/*.dll", "**/*.dylib", "**/*.dylib.*", "**/*.so", "**/*.so.*">>
      [] name = "dbg" -> <<".build-id/**/*.debug">>
      [] name = "dev" -> <<"**/*.a", "**/*.lib", "**/cmake/**", "**/include/**",
                           "**/share/modulefiles/**", "**/pkgconfig/**">>
      [] name = "doc" -> <<"**/share/doc/**">>
      [] OTHER -> <<>>

DefaultExcludes(name) == <<>>

DefaultExtends(name) ==
    CASE name = "run" -> <<"lib">>
      [] name = "dbg" -> <<"run">>
      [] name = "dev" -> <<"dbg">>
      [] name = "doc" -> <<"dev">>
      [] OTHER -> <<>>

\* ComponentDescriptor.defaults: the registry entry, or an empty default.
defaults(name) ==
    [includes |-> DefaultIncludes(name),
     excludes |-> DefaultExcludes(name),
     extends |-> DefaultExtends(name)]

----------------------------------------------------------------------------
\* The glob-matching primitive (_therock_utils.pattern_match), over a small
\* universe of relative paths.  A glob is modelled by the set of relative
\* paths of the universe it matches; pattern syntax itself is not modelled.

SoFile == "lib/libfoo.so"
ExeFile == "bin/abc.exe"
DocDir == "share/doc"

RelPaths == {SoFile, ExeFile, DocDir}

\* RecursiveGlobPattern.matches(relpath, direntry), as a match set.
GlobMatchSet(glob) ==
    CASE glob = "**/*.so" -> {SoFile}
      [] glob = "lib/libfoo*" -> {SoFile}
      [] glob = "bin/*.exe" -> {ExeFile}
      [] glob = "bin/abc.exe" -> {ExeFile}
      [] glob = "**/share/doc/**" -> {DocDir}
      [] OTHER -> {}

AnyMatches(globs, relpath) ==
    \E i \in 1..Len(globs) : relpath \in GlobMatchSet(globs[i])

\* MatchPredicate(includes, excludes, force_includes): the three pattern lists.
MatchPredicate(includes, excludes, force_includes) ==
    [includes |-> includes, excludes |-> excludes, force_includes |-> force_includes]

\* MatchPredicate.matches(match_path, direntry).  A force-include match wins;
\* a non-empty include list must be matched; any exclude match rejects.  An
\* empty include list places no include constraint: the scanner relies on it
\* twice, for PatternMatcher().matches() to yield every scanned entry and for
\* MatchPredicate(unmatched_include=[], unmatched_exclude) to flag every
\* unmatched file that is not excluded (testUnmatchedUndeclared).
matches(predicate, relpath) ==
    \/ AnyMatches(predicate.force_includes, relpath)
    \/ /\ (predicate.includes # <<>> => AnyMatches(predicate.includes, relpath))
       /\ ~AnyMatches(predicate.excludes, relpath)

----------------------------------------------------------------------------
\* Descriptor parsing.

ARTIFACT_ALLOWED_KEYS == {"components", "options"}
OPTIONS_ALLOWED_KEYS == {"unmatched_include", "unmatched_exclude"}
COMPONENT_ALLOWED_KEYS == {"extends"}
BASEDIR_ALLOWED_KEYS == {"default_patterns", "exclude", "force_include", "include", "optional"}

\* A key check that accepts every key.
_check_allowed_keys_Lenient(rec, allowed_keys) == Ok(TRUE)

\* _check_allowed_keys(record, allowed_keys): raises on the first key, in
\* record order, that is not allowed.
_check_allowed_keys(rec, allowed_keys) ==
    LET bad == {i \in 1..Len(rec) : rec[i].k \notin allowed_keys}
    IN  IF bad = {}
        THEN Ok(TRUE)
        ELSE ValueError([kind |-> "illegal_key", key |-> rec[MinOf(bad)].k,
                         allowed |-> allowed_keys])

\* A conversion that wraps an empty string like any other string.
_dup_list_or_str_WrapEmpty(v) ==
    IF ~(IsList(v) \/ IsStr(v) \/ IsNone(v))
    THEN ValueError([kind |-> "expected_list_str_none"])
    ELSE IF IsStr(v) THEN Ok(<<v.s>>)
    ELSE IF ~bool(v) THEN Ok(<<>>)
    ELSE Ok(v.l)

\* _dup_list_or_str(v)
_dup_list_or_str(v) ==
    IF ~(IsList(v) \/ IsStr(v) \/ IsNone(v))
    THEN ValueError([kind |-> "expected_list_str_none"])
    ELSE IF ~bool(v) THEN Ok(<<>>)
    ELSE IF IsStr(v) THEN Ok(<<v.s>>)
    ELSE Ok(v.l)

\* A comparison of platform names that keeps their case.
lower_Identity(str) == str

\* str.lower() on the platform names of the model.
lower(str) ==
    CASE str \in {"Linux", "LINUX", "linux"} -> "linux"
      [] str \in {"Windows", "WINDOWS", "windows"} -> "windows"
      [] str \in {"Darwin", "DARWIN", "darwin"} -> "darwin"
      [] OTHER -> str

\* _evaluate_optional(optional_value), on a platform whose platform.system()
\* is system_name.
_evaluate_optional(optional_value, system_name) ==
    IF IsNone(optional_value) THEN FALSE
    ELSE IF IsStr(optional_value) THEN lower(optional_value.s) = lower(system_name)
    ELSE IF IsList(optional_value)
         THEN \E i \in 1..Len(optional_value.l) :
                  lower(optional_value.l[i]) = lower(system_name)
    ELSE bool(optional_value)

\* A basedir descriptor that puts the registry patterns before the explicit
\* ones and gives force_include the registry includes too.
ComponentBasedirDescriptor_DefaultsFirst(component_name, basedir_relpath, rec, system_name) ==
    LET chk == _check_allowed_keys(rec, BASEDIR_ALLOWED_KEYS)
        use_default_patterns ==
            IF HasKey(rec, "default_patterns") THEN bool(get(rec, "default_patterns"))
            ELSE TRUE
        dflt == defaults(component_name)
        inc == _dup_list_or_str(get(rec, "include"))
        exc == _dup_list_or_str(get(rec, "exclude"))
        frc == _dup_list_or_str(get(rec, "force_include"))
    IN  IF ~chk.ok THEN chk
        ELSE IF ~inc.ok THEN inc
        ELSE IF ~exc.ok THEN exc
        ELSE IF ~frc.ok THEN frc
        ELSE Ok([basedir_relpath |-> basedir_relpath,
                 optional |-> _evaluate_optional(get(rec, "optional"), system_name),
                 predicate |-> MatchPredicate(
                     IF use_default_patterns THEN dflt.includes \o inc.val ELSE inc.val,
                     IF use_default_patterns THEN dflt.excludes \o exc.val ELSE exc.val,
                     IF use_default_patterns THEN frc.val \o dflt.includes ELSE frc.val)])

\* ComponentBasedirDescriptor.__init__(component, basedir_relpath, record)
ComponentBasedirDescriptor(component_name, basedir_relpath, rec, system_name) ==
    LET chk == _check_allowed_keys(rec, BASEDIR_ALLOWED_KEYS)
        use_default_patterns ==
            IF HasKey(rec, "default_patterns") THEN bool(get(rec, "default_patterns"))
            ELSE TRUE
        dflt == defaults(component_name)
        inc == _dup_list_or_str(get(rec, "include"))
        exc == _dup_list_or_str(get(rec, "exclude"))
        frc == _dup_list_or_str(get(rec, "force_include"))
    IN  IF ~chk.ok THEN chk
        ELSE IF ~inc.ok THEN inc
        ELSE IF ~exc.ok THEN exc
        ELSE IF ~frc.ok THEN frc
        ELSE Ok([basedir_relpath |-> basedir_relpath,
                 optional |-> _evaluate_optional(get(rec, "optional"), system_name),
                 predicate |-> MatchPredicate(
                     IF use_default_patterns THEN inc.val \o dflt.includes ELSE inc.val,
                     IF use_default_patterns THEN exc.val \o dflt.excludes ELSE exc.val,
                     frc.val)])

\* The first failed result of a sequence of results, or Ok of their values.
RECURSIVE Collect(_)
Collect(results) ==
    IF results = <<>> THEN Ok(<<>>)
    ELSE IF ~Head(results).ok THEN Head(results)
    ELSE LET rest == Collect(Tail(results))
         IN  IF ~rest.ok THEN rest ELSE Ok(<<Head(results).val>> \o rest.val)

\* The pairs of a table, in order, whose value is a table (wantTable) or is not.
RECURSIVE SelectPairs(_, _)
SelectPairs(kv, wantTable) ==
    IF kv = <<>> THEN <<>>
    ELSE IF IsTable(Head(kv).v) = wantTable
         THEN <<Head(kv)>> \o SelectPairs(Tail(kv), wantTable)
         ELSE SelectPairs(Tail(kv), wantTable)

\* ComponentDescriptor.__init__(name, record)
ComponentDescriptor(name, rec, system_name) ==
    LET basedir_records == SelectPairs(rec, TRUE)
        fields == SelectPairs(rec, FALSE)
        chk == _check_allowed_keys(fields, COMPONENT_ALLOWED_KEYS)
        optional_extends == get(fields, "extends")
        ext == IF IsNone(optional_extends)
               THEN Ok(defaults(name).extends)
               ELSE _dup_list_or_str(optional_extends)
        bds == Collect([i \in 1..Len(basedir_records) |->
                   ComponentBasedirDescriptor(name, basedir_records[i].k,
                                              basedir_records[i].v.kv, system_name)])
    IN  IF ~chk.ok THEN chk
        ELSE IF ~ext.ok THEN ext
        ELSE IF ~bds.ok THEN bds
        ELSE Ok([name |-> name, extends |-> ext.val, basedirs |-> bds.val])

\* OptionsDescriptor.__init__(record)
OptionsDescriptor(rec) ==
    LET chk == _check_allowed_keys(rec, OPTIONS_ALLOWED_KEYS)
        unmatched_include == _dup_list_or_str(get(rec, "unmatched_include"))
        unmatched_exclude == _dup_list_or_str(get(rec, "unmatched_exclude"))
    IN  IF ~chk.ok THEN chk
        ELSE IF ~unmatched_include.ok THEN unmatched_include
        ELSE IF ~unmatched_exclude.ok THEN unmatched_exclude
        ELSE Ok([unmatched_pattern |->
                    MatchPredicate(unmatched_include.val, unmatched_exclude.val, <<>>)])

\* A parse that adds no component for the registry names left undeclared.
MissingDefaults_None(registry, names) == <<>>

\* The registry names, in registry order, that `names` does not hold.
RECURSIVE MissingDefaults(_, _)
MissingDefaults(registry, names) ==
    IF registry = <<>> THEN <<>>
    ELSE IF Head(registry) \in names THEN MissingDefaults(Tail(registry), names)
    ELSE <<Head(registry)>> \o MissingDefaults(Tail(registry), names)

\* ArtifactDescriptor.__init__(record): options, the declared components in
\* document order, then an empty component for each registry name not declared.
ArtifactDescriptor(rec, system_name) ==
    LET chk == _check_allowed_keys(rec, ARTIFACT_ALLOWED_KEYS)
        options_record == IF HasKey(rec, "options") THEN get(rec, "options") ELSE Table(<<>>)
        options == OptionsDescriptor(options_record.kv)
        components_record ==
            IF HasKey(rec, "components") THEN get(rec, "components") ELSE Table(<<>>)
        ckv == components_record.kv
        declared == Collect([i \in 1..Len(ckv) |->
                       IF IsTable(ckv[i].v)
                       THEN ComponentDescriptor(ckv[i].k, ckv[i].v.kv, system_name)
                       ELSE ValueError([kind |-> "component_not_a_table", key |-> ckv[i].k])])
        missing == MissingDefaults(RegistryNames, {ckv[i].k : i \in 1..Len(ckv)})
        vivified == Collect([i \in 1..Len(missing) |->
                       ComponentDescriptor(missing[i], <<>>, system_name)])
    IN  IF ~chk.ok THEN chk
        ELSE IF ~IsTable(options_record) THEN ValueError([kind |-> "options_not_a_table"])
        ELSE IF ~options.ok THEN options
        ELSE IF ~IsTable(components_record)
             THEN ValueError([kind |-> "components_not_a_table"])
        ELSE IF ~declared.ok THEN declared
        ELSE Ok([components |-> declared.val \o vivified.val, options |-> options.val])

----------------------------------------------------------------------------
\* The classification engine: ComponentScanner.

\* A scanned os.DirEntry: its path relative to the base directory it was
\* found in, that base directory, and whether it is a directory.
DirEntry(relpath, basedir, is_dir) ==
    [relpath |-> relpath, basedir |-> basedir, is_dir |-> is_dir]

\* PatternMatcher.add_basedir(root_dir / basedir): the entries one walk finds.
add_basedir(basedir) ==
    {DirEntry(e.relpath, basedir, e.is_dir) : e \in tree[basedir].entries}

\* The ComponentContents stored under `name`, or none: self.components.get(name).
IsPopulated(name) == \E i \in 1..Len(components) : components[i].name = name
ComponentGet(name) == components[CHOOSE i \in 1..Len(components) : components[i].name = name]

\* _resolve_extends that passes over a name that is not populated instead of
\* returning None.
_resolve_extends_SkipUnresolved(extends) ==
    Ok({ComponentGet(extends[i]) : i \in {k \in 1..Len(extends) : IsPopulated(extends[k])}})

\* ComponentScanner._resolve_extends(extends): the contents of every extended
\* component, or None when one of them is not populated yet.
_resolve_extends(extends) ==
    IF \A i \in 1..Len(extends) : IsPopulated(extends[i])
    THEN Ok({ComponentGet(extends[i]) : i \in 1..Len(extends)})
    ELSE [ok |-> FALSE]

\* The relative paths held by a PatternMatcher that entries were added to.
AllOf(basedir_contents) == UNION {basedir_contents[i].all : i \in 1..Len(basedir_contents)}

\* An unmatched list that leaves out what the unmatched policy does not flag.
unmatched_files_PolicyFlagged ==
    {relpath \in DOMAIN all_entries :
        /\ relpath \notin matched_relpaths /\ ~all_entries[relpath].is_dir
        /\ matches(ad.options.unmatched_pattern, relpath)}

\* ComponentScanner.unmatched_files
unmatched_files ==
    {relpath \in DOMAIN all_entries :
        relpath \notin matched_relpaths /\ ~all_entries[relpath].is_dir}

\* ArtifactDescriptor.load_toml_file(p)
Load ==
    /\ pc = "load"
    /\ LET loaded == ArtifactDescriptor(record, system)
       IN  IF loaded.ok
           THEN ad' = loaded.val /\ pc' = "init" /\ error' = error
           ELSE ad' = ad /\ pc' = "failed"
                /\ error' = [kind |-> "schema", detail |-> loaded.error]
    /\ UNCHANGED <<record, tree, system, artifact, previous, passes, basedir_cache, components, all_entries,
                   matched_relpaths, missing_basedirs, worklist, next_worklist,
                   forward_progress, wi, contents, bi, pending, walks>>

\* ComponentScanner.__init__, up to the worklist loop.
ScannerInit ==
    /\ pc = "init"
    /\ worklist' = ad.components
    /\ next_worklist' = <<>>
    /\ forward_progress' = TRUE
    /\ pc' = "while"
    /\ UNCHANGED <<record, tree, system, artifact, previous, passes, ad, basedir_cache, components, all_entries,
                   matched_relpaths, missing_basedirs, wi, contents, bi, pending,
                   walks, error>>

\* A graph error that stops at the first worklist component.
IllegalNames_FirstOnly(wl) == [i \in 1..1 |-> [name |-> wl[i].name, extends |-> wl[i].extends]]

\* The graph error's text: one "name -> extends" item per worklist component.
IllegalNames(wl) == [i \in 1..Len(wl) |-> [name |-> wl[i].name, extends |-> wl[i].extends]]

\* A loop that never finds that a pass made no forward progress.
NoForwardProgress_Never == FALSE

\* `if not forward_progress:`
NoForwardProgress == ~forward_progress

\* `while worklist:` with the forward-progress check.
WhileWorklist ==
    /\ pc = "while"
    /\ IF worklist = <<>>
       THEN pc' = "scanned" /\ UNCHANGED <<forward_progress, wi, error, passes>>
       ELSE IF NoForwardProgress
       THEN /\ pc' = "failed"
            /\ error' = [kind |-> "graph", illegal_names |-> IllegalNames(worklist)]
            /\ UNCHANGED <<forward_progress, wi, passes>>
       ELSE /\ forward_progress' = FALSE
            /\ wi' = 1
            /\ passes' = passes + 1
            /\ pc' = "for"
            /\ error' = error
    /\ UNCHANGED <<record, tree, system, artifact, previous, ad, basedir_cache, components, all_entries,
                   matched_relpaths, missing_basedirs, worklist, next_worklist,
                   contents, bi, pending, walks>>

\* No earlier ComponentScanner ran over the same inputs.
NoRun == [none |-> TRUE]

\* The paths the components of the earlier classification claimed.
PreviouslyClaimed ==
    IF previous = NoRun THEN {} ELSE UNION {c.claimed : c \in previous.components}

\* One transitive set shared by every ComponentContents ever made, instead of
\* one per instance.
InheritedRelpaths_Shared(extends) == matched_relpaths \cup PreviouslyClaimed

\* A ComponentContents that starts from an empty transitive set.
InheritedRelpaths_Unseeded(extends) == {}

\* A transitive set seeded with every path matched so far by any component,
\* extended or not.
InheritedRelpaths_AllSoFar(extends) == matched_relpaths

\* The transitive set a new ComponentContents starts from.
InheritedRelpaths(extends) == UNION {ec.transitive_relpaths : ec \in extends}

\* `for cd in worklist:` with an unresolved extends: deferred to the next pass.
DeferComponent ==
    /\ pc = "for"
    /\ wi <= Len(worklist)
    /\ ~_resolve_extends(worklist[wi].extends).ok
    /\ next_worklist' = Append(next_worklist, worklist[wi])
    /\ wi' = wi + 1
    /\ UNCHANGED <<record, tree, system, artifact, previous, passes, pc, ad, basedir_cache, components, all_entries,
                   matched_relpaths, missing_basedirs, worklist, forward_progress,
                   contents, bi, pending, walks, error>>

\* `for cd in worklist:` with every extends resolved: _populate_component
\* starts, seeding the transitive set from the extended components.
BeginComponent ==
    /\ pc = "for"
    /\ wi <= Len(worklist)
    /\ LET extends == _resolve_extends(worklist[wi].extends)
       IN  /\ extends.ok
           /\ contents' = [name |-> worklist[wi].name,
                           component_descriptor |-> worklist[wi],
                           transitive_relpaths |-> InheritedRelpaths(extends.val),
                           basedir_contents |-> <<>>]
    /\ bi' = 1
    /\ pc' = "basedirs"
    /\ UNCHANGED <<record, tree, system, artifact, previous, passes, ad, basedir_cache, components, all_entries,
                   matched_relpaths, missing_basedirs, worklist, next_worklist,
                   forward_progress, wi, pending, walks, error>>

\* The end of one pass: swap the worklists.
SwapWorklist ==
    /\ pc = "for"
    /\ wi > Len(worklist)
    /\ worklist' = next_worklist
    /\ next_worklist' = <<>>
    /\ pc' = "while"
    /\ UNCHANGED <<record, tree, system, artifact, previous, passes, ad, basedir_cache, components, all_entries,
                   matched_relpaths, missing_basedirs, forward_progress, wi, contents,
                   bi, pending, walks, error>>

\* A cache that never holds a base directory.
IsCached_Never(basedir) == FALSE

\* `pm = self.basedir_cache.get(basedir)` found a PatternMatcher.
IsCached(basedir) == basedir \in DOMAIN basedir_cache

\* A filesystem on which every base directory is taken to exist.
exists_Always(basedir) == TRUE

\* `full_path.exists()` for root_dir / basedir.
exists(basedir) == tree[basedir].exists

\* `for bd in cd.basedirs.values():` _get_basedir(bd.basedir_relpath) and a
\* fresh destination PatternMatcher.  A cached basedir is not walked again; a
\* basedir that does not exist is recorded missing and yields no entries.
BeginBasedir ==
    /\ pc = "basedirs"
    /\ bi <= Len(contents.component_descriptor.basedirs)
    /\ LET basedir == contents.component_descriptor.basedirs[bi].basedir_relpath
       IN  /\ IF IsCached(basedir)
              THEN /\ pending' = basedir_cache[basedir]
                   /\ UNCHANGED <<basedir_cache, missing_basedirs, walks>>
              ELSE IF exists(basedir)
              THEN /\ basedir_cache' = [b \in DOMAIN basedir_cache \cup {basedir} |->
                                           IF b = basedir THEN add_basedir(basedir)
                                           ELSE basedir_cache[b]]
                   /\ walks' = [walks EXCEPT ![basedir] = @ + 1]
                   /\ pending' = add_basedir(basedir)
                   /\ UNCHANGED missing_basedirs
              ELSE /\ missing_basedirs' = missing_basedirs \cup {basedir}
                   /\ pending' = {}
                   /\ UNCHANGED <<basedir_cache, walks>>
           /\ contents' = [contents EXCEPT !.basedir_contents =
                              Append(@, [basedir |-> basedir, all |-> {}])]
    /\ pc' = "entries"
    /\ UNCHANGED <<record, tree, system, artifact, previous, passes, ad, components, all_entries, matched_relpaths,
                   worklist, next_worklist, forward_progress, wi, bi, error>>

\* A scan that never skips an entry.
AlreadyClaimed_Never(c, relpath) == FALSE

\* `if relpath in contents.transitive_relpaths: continue`
AlreadyClaimed(c, relpath) == relpath \in c.transitive_relpaths

\* A match test in which an exclude pattern beats a force-include pattern.
PredicateMatches_ExcludeWins(bd, relpath) ==
    /\ ~AnyMatches(bd.predicate.excludes, relpath)
    /\ \/ AnyMatches(bd.predicate.force_includes, relpath)
       \/ bd.predicate.includes = <<>>
       \/ AnyMatches(bd.predicate.includes, relpath)

\* `if bd.predicate.matches(relpath, direntry):`
PredicateMatches(bd, relpath) == matches(bd.predicate, relpath)

\* A match that is added to the destination but not to the transitive set.
AddEntry_NoTransitive(c, i, relpath) ==
    [c EXCEPT !.basedir_contents[i].all = @ \cup {relpath}]

\* A match that joins the transitive set but not the destination matcher.
AddEntry_TransitiveOnly(c, i, relpath) ==
    [c EXCEPT !.transitive_relpaths = @ \cup {relpath}]

\* dest_pm.add_entry(relpath, direntry); contents.transitive_relpaths.add(relpath)
AddEntry(c, i, relpath) ==
    [c EXCEPT !.basedir_contents[i].all = @ \cup {relpath},
              !.transitive_relpaths = @ \cup {relpath}]

\* A table that keeps the entry seen last.
RecordEntry_Overwrite(entries, relpath, direntry) ==
    [r \in DOMAIN entries \cup {relpath} |-> IF r = relpath THEN direntry ELSE entries[r]]

\* `if relpath not in self.all_entries: self.all_entries[relpath] = direntry`
RecordEntry(entries, relpath, direntry) ==
    IF relpath \notin DOMAIN entries
    THEN [r \in DOMAIN entries \cup {relpath} |-> IF r = relpath THEN direntry ELSE entries[r]]
    ELSE entries

\* `for relpath, direntry in pm.matches():` one entry, in the walk's order
\* (os.scandir order is arbitrary).
ScanEntry ==
    /\ pc = "entries"
    /\ \E direntry \in pending :
        LET relpath == direntry.relpath
            bd == contents.component_descriptor.basedirs[bi]
        IN  /\ pending' = pending \ {direntry}
            /\ IF AlreadyClaimed(contents, relpath)
               THEN UNCHANGED <<all_entries, matched_relpaths, contents>>
               ELSE /\ all_entries' = RecordEntry(all_entries, relpath, direntry)
                    /\ IF PredicateMatches(bd, relpath)
                       THEN /\ matched_relpaths' = matched_relpaths \cup {relpath}
                            /\ contents' = AddEntry(contents, bi, relpath)
                       ELSE UNCHANGED <<matched_relpaths, contents>>
    /\ UNCHANGED <<record, tree, system, artifact, previous, passes, pc, ad, basedir_cache, components,
                   missing_basedirs, worklist, next_worklist, forward_progress, wi, bi,
                   walks, error>>

\* pm.matches() is exhausted: on to the next basedir.
EndBasedir ==
    /\ pc = "entries"
    /\ pending = {}
    /\ bi' = bi + 1
    /\ pc' = "basedirs"
    /\ UNCHANGED <<record, tree, system, artifact, previous, passes, ad, basedir_cache, components, all_entries,
                   matched_relpaths, missing_basedirs, worklist, next_worklist,
                   forward_progress, wi, contents, pending, walks, error>>

\* A store in which the new contents share their transitive set with the
\* contents of the components they extend, which see every path added to it.
StoreComponent_SharedSet(stored, c) ==
    Append([i \in 1..Len(stored) |->
               IF stored[i].name \in SeqToSet(c.component_descriptor.extends)
               THEN [stored[i] EXCEPT !.transitive_relpaths = @ \cup c.transitive_relpaths]
               ELSE stored[i]], c)

\* `self.components[cd.name] = contents`
StoreComponent(stored, c) == Append(stored, c)

\* _populate_component returns: the contents are stored and the pass has made
\* forward progress.
EndComponent ==
    /\ pc = "basedirs"
    /\ bi > Len(contents.component_descriptor.basedirs)
    /\ components' = StoreComponent(components, contents)
    /\ forward_progress' = TRUE
    /\ wi' = wi + 1
    /\ pc' = "for"
    /\ UNCHANGED <<record, tree, system, artifact, previous, passes, ad, basedir_cache, all_entries, matched_relpaths,
                   missing_basedirs, worklist, next_worklist, contents, bi, pending,
                   walks, error>>

\* The basedir descriptor of `basedir` in a component descriptor.
BasedirDescriptorOf(cd, basedir) ==
    cd.basedirs[CHOOSE i \in 1..Len(cd.basedirs) : cd.basedirs[i].basedir_relpath = basedir]

\* A check that takes every missing basedir for a required one.
MissingRequired_IgnoringOptional ==
    {p \in UNION {{<<i, j>> : j \in 1..Len(components[i].basedir_contents)} :
                    i \in 1..Len(components)} :
        components[p[1]].basedir_contents[p[2]].basedir \in missing_basedirs}

\* The (component index, basedir index) pairs verify() finds missing and not
\* optional: `if basedir in self.missing_basedirs and not bd_desc.optional`.
MissingRequired ==
    {p \in UNION {{<<i, j>> : j \in 1..Len(components[i].basedir_contents)} :
                    i \in 1..Len(components)} :
        LET basedir == components[p[1]].basedir_contents[p[2]].basedir
        IN  /\ basedir \in missing_basedirs
            /\ ~BasedirDescriptorOf(components[p[1]].component_descriptor,
                                    basedir).optional}

\* A loop that raises at the last pair instead of the first.
LastPair(S) ==
    CHOOSE p \in S : \A q \in S : q[1] < p[1] \/ (q[1] = p[1] /\ q[2] <= p[2])

\* The pair verify() raises at: the first in its iteration order, components
\* in insertion order and each component's basedir_contents in insertion order.
FirstPair(S) ==
    CHOOSE p \in S : \A q \in S : p[1] < q[1] \/ (p[1] = q[1] /\ p[2] <= q[2])

\* A listing cut to one path.
undeclared_relpaths_Truncated ==
    LET all == {relpath \in unmatched_files : matches(ad.options.unmatched_pattern, relpath)}
    IN  IF all = {} THEN {} ELSE {CHOOSE relpath \in all : TRUE}

\* The unmatched files the global unmatched predicate flags.
undeclared_relpaths ==
    {relpath \in unmatched_files : matches(ad.options.unmatched_pattern, relpath)}

\* ComponentScanner.verify()
verify ==
    /\ pc = "scanned"
    /\ pc' = "verified"
    /\ error' =
        IF MissingRequired # {}
        THEN LET p == FirstPair(MissingRequired)
             IN  [kind |-> "missing",
                  component |-> components[p[1]].name,
                  basedir |-> components[p[1]].basedir_contents[p[2]].basedir]
        ELSE IF undeclared_relpaths # {}
        THEN [kind |-> "unmatched", relpaths |-> undeclared_relpaths]
        ELSE NoError
    /\ UNCHANGED <<record, tree, system, artifact, previous, passes, ad, basedir_cache, components, all_entries,
                   matched_relpaths, missing_basedirs, worklist, next_worklist,
                   forward_progress, wi, contents, bi, pending, walks>>

----------------------------------------------------------------------------
\* Materialization: ComponentContents.write_artifact.  A text is the sequence
\* of its pieces, a line break being the piece "\n"; a destination path is the
\* prefix it was copied under and the relative path below it.

NoArtifact == [none |-> TRUE]

\* sep.join(items)
RECURSIVE join(_, _)
join(sep, items) ==
    IF items = <<>> THEN <<>>
    ELSE IF Len(items) = 1 THEN <<items[1]>>
    ELSE <<Head(items), sep>> \o join(sep, Tail(items))

\* str.splitlines(): the lines of a text, each the sequence of its pieces.  A
\* line break ends a line; pieces after the last line break are a last line.
RECURSIVE splitlines(_)
splitlines(text) ==
    LET breaks == {i \in 1..Len(text) : text[i] = "\n"}
    IN  IF text = <<>> THEN <<>>
        ELSE IF breaks = {} THEN <<text>>
        ELSE <<SubSeq(text, 1, MinOf(breaks) - 1)>>
             \o splitlines(SubSeq(text, MinOf(breaks) + 1, Len(text)))

\* PatternMatcher.copy_to(destdir, destprefix, remove_dest=False) into an empty
\* destination: every entry of the matcher, under destprefix.
copy_to(pm, destprefix) == {[destprefix |-> destprefix, relpath |-> r] : r \in pm.all}

\* self.basedir_contents.keys(), in insertion order.
manifest_keys(c) == [i \in 1..Len(c.basedir_contents) |-> c.basedir_contents[i].basedir]

\* ComponentContents.write_artifact(destdir), destdir being empty: the files
\* copied and the text of artifact_manifest.txt.
write_artifact(c) ==
    [component |-> c.name,
     files |-> UNION {copy_to(c.basedir_contents[i], <<c.basedir_contents[i].basedir, "/">>) :
                         i \in 1..Len(c.basedir_contents)},
     manifest |-> join("\n", manifest_keys(c)) \o <<"\n">>]

\* A caller that goes on to write after verify() raised.
MayMaterialize_IgnoringVerify == pc = "verified"

\* The caller reaches write_artifact only past load_toml_file, the
\* ComponentScanner constructor and verify(), none of which raised.
MayMaterialize == pc = "verified" /\ error = NoError

\* The caller writes one component's artifact.
Materialize ==
    /\ MayMaterialize
    /\ \E i \in 1..Len(components) : artifact' = write_artifact(components[i])
    /\ pc' = "written"
    /\ UNCHANGED <<record, tree, system, previous, passes, ad, basedir_cache, components,
                   all_entries, matched_relpaths, missing_basedirs, worklist,
                   next_worklist, forward_progress, wi, contents, bi, pending, walks,
                   error>>

----------------------------------------------------------------------------
\* A second classification of the same descriptor against the same tree.

\* What a finished classification yields: per component its claimed set and
\* its own result per basedir, the aggregate matched set and the unmatched
\* files.
ScanResults ==
    [components |-> {[name |-> components[i].name,
                      claimed |-> components[i].transitive_relpaths,
                      own |-> components[i].basedir_contents] : i \in 1..Len(components)},
     matched |-> matched_relpaths,
     unmatched |-> unmatched_files]

\* A new ComponentScanner(root_dir, ad) over the same descriptor and tree:
\* every field starts empty again.
ScanAgain ==
    /\ pc = "scanned"
    /\ previous = NoRun
    /\ previous' = ScanResults
    /\ basedir_cache' = <<>>
    /\ components' = <<>>
    /\ all_entries' = <<>>
    /\ matched_relpaths' = {}
    /\ missing_basedirs' = {}
    /\ walks' = [b \in DOMAIN walks |-> 0]
    /\ passes' = 0
    /\ pc' = "init"
    /\ UNCHANGED <<record, tree, system, artifact, ad, worklist, next_worklist,
                   forward_progress, wi, contents, bi, pending, error>>

\* The "components" table of the document, and the names it declares.
DocumentComponents ==
    IF HasKey(record, "components") /\ IsTable(get(record, "components"))
    THEN get(record, "components").kv
    ELSE <<>>

DocumentDeclares(name) == HasKey(DocumentComponents, name)

\* The document with its component declarations in the order p.
Reordered(rec, p) ==
    [i \in 1..Len(rec) |->
        IF rec[i].k = "components"
        THEN KV("components", Table([j \in 1..Len(rec[i].v.kv) |-> rec[i].v.kv[p[j]]]))
        ELSE rec[i]]

\* The component names of the descriptor, in worklist order.
DescriptorOrder == [i \in 1..Len(ad.components) |-> ad.components[i].name]

\* A new ComponentScanner(root_dir, ad) over the same tree, ad being parsed
\* from the same document with its component declarations permuted.
ScanReordered ==
    /\ pc = "scanned"
    /\ previous = NoRun
    /\ \E p \in Permutations(1..Len(DocumentComponents)) :
          /\ record' = Reordered(record, p)
          /\ ad' = ArtifactDescriptor(Reordered(record, p), system).val
    /\ previous' = ScanResults @@ [order |-> DescriptorOrder]
    /\ basedir_cache' = <<>>
    /\ components' = <<>>
    /\ all_entries' = <<>>
    /\ matched_relpaths' = {}
    /\ missing_basedirs' = {}
    /\ walks' = [b \in DOMAIN walks |-> 0]
    /\ passes' = 0
    /\ pc' = "init"
    /\ UNCHANGED <<tree, system, artifact, worklist, next_worklist,
                   forward_progress, wi, contents, bi, pending, error>>

----------------------------------------------------------------------------
\* The inputs: descriptor documents and staged trees.

MaxRecords == 2      \* basedir records per document
MaxFeatures == 3     \* records, record keys, extends overrides and options per document

Basedirs == <<"a/stage", "b/stage">>

\* The components a document may give basedir records to.
RecordSlots == {<<"lib", 1>>, <<"run", 1>>, <<"run", 2>>, <<"doc", 1>>}

\* Bodies of a basedir record, each with the number of keys it sets.
RecordBodies ==
    {<<>>,
     <<KV("include", Str("bin/*.exe"))>>,
     <<KV("include", Str("lib/libfoo*"))>>,
     <<KV("default_patterns", Bool(FALSE))>>,
     <<KV("optional", Bool(TRUE))>>,
     <<KV("include", Str("bin/*.exe")), KV("exclude", List(<<"bin/abc.exe">>))>>,
     <<KV("force_include", Str("bin/abc.exe")), KV("exclude", Str("bin/*.exe"))>>}

\* Explicit "extends" values, by component.
NoOverride == [name |-> "", extends |-> NoneV]
ExtendsOverrides ==
    {NoOverride,
     [name |-> "lib", extends |-> Str("run")],
     [name |-> "dbg", extends |-> Str("dev")],
     [name |-> "run", extends |-> List(<<>>)],
     [name |-> "run", extends |-> Str("nope")],
     [name |-> "dev", extends |-> List(<<"lib", "nope">>)],
     [name |-> "doc", extends |-> List(<<"lib", "run">>)],
     [name |-> "doc", extends |-> Str("doc")]}

OptionBodies ==
    {<<>>,
     <<KV("unmatched_exclude", List(<<"bin/abc.exe">>))>>,
     <<KV("unmatched_include", Str("lib/libfoo*"))>>}

\* A document's shape: which slots hold which body, the override, the options
\* and whether components are declared in reverse registry order.
Shapes ==
    {sh \in [recs : UNION {[S -> RecordBodies] : S \in SUBSET RecordSlots},
             override : ExtendsOverrides,
             options : OptionBodies,
             reversed : BOOLEAN] :
        /\ Cardinality(DOMAIN sh.recs) <= MaxRecords
        /\ LET slots == DOMAIN sh.recs
               keys == IF slots = {} THEN 0
                       ELSE LET RECURSIVE Sum(_)
                                Sum(S) == IF S = {} THEN 0
                                          ELSE LET x == CHOOSE y \in S : TRUE
                                               IN  Len(sh.recs[x]) + Sum(S \ {x})
                            IN  Sum(slots)
           IN  Cardinality(slots) + keys
               + (IF sh.override = NoOverride THEN 0 ELSE 1)
               + (IF sh.options = <<>> THEN 0 ELSE 1) <= MaxFeatures}

Reverse(s) == [i \in 1..Len(s) |-> s[Len(s) + 1 - i]]

RECURSIVE SelectNames(_, _)
SelectNames(names, S) ==
    IF names = <<>> THEN <<>>
    ELSE IF Head(names) \in S THEN <<Head(names)>> \o SelectNames(Tail(names), S)
    ELSE SelectNames(Tail(names), S)

\* The component table of a shape.
ComponentRecord(sh, name) ==
    (IF sh.override.name = name THEN <<KV("extends", sh.override.extends)>> ELSE <<>>)
    \o (IF <<name, 1>> \in DOMAIN sh.recs
        THEN <<KV(Basedirs[1], Table(sh.recs[<<name, 1>>]))>> ELSE <<>>)
    \o (IF <<name, 2>> \in DOMAIN sh.recs
        THEN <<KV(Basedirs[2], Table(sh.recs[<<name, 2>>]))>> ELSE <<>>)

\* The document of a shape.
Document(sh) ==
    LET declared == {slot[1] : slot \in DOMAIN sh.recs}
                    \cup (IF sh.override = NoOverride THEN {} ELSE {sh.override.name})
        inOrder == SelectNames(RegistryNames, declared)
        names == IF sh.reversed THEN Reverse(inOrder) ELSE inOrder
    IN  (IF sh.options = <<>> THEN <<>> ELSE <<KV("options", Table(sh.options))>>)
        \o (IF names = <<>> THEN <<>>
            ELSE <<KV("components",
                      Table([i \in 1..Len(names) |->
                                KV(names[i], Table(ComponentRecord(sh, names[i])))]))>>)

\* Documents that do not parse: an illegal key at the top level and in a
\* basedir record, and a pattern list of the wrong type.
MalformedDocuments ==
    {<<KV("component", Table(<<>>))>>,
     <<KV("components", Table(<<KV("lib", Table(<<KV("a/stage",
           Table(<<KV("includes", Str("bin/*.exe"))>>))>>))>>))>>,
     <<KV("components", Table(<<KV("lib", Table(<<KV("a/stage",
           Table(<<KV("include", Bool(TRUE))>>))>>))>>))>>}

Documents == {Document(sh) : sh \in Shapes} \cup MalformedDocuments

File(relpath) == [relpath |-> relpath, is_dir |-> FALSE]
Dir(relpath) == [relpath |-> relpath, is_dir |-> TRUE]
Missing == [exists |-> FALSE, entries |-> {}]
Present(entries) == [exists |-> TRUE, entries |-> entries]

\* The staged trees: each base directory is missing, empty or holds entries.
Trees ==
    {<<a, b>> : a \in {Missing, Present({}), Present({File(ExeFile)}),
                      Present({File(SoFile), File(ExeFile), Dir(DocDir)})},
               b \in {Missing, Present({File(SoFile), File(ExeFile)})}}

PlatformSystems == {"Linux"}

----------------------------------------------------------------------------
\* The inputs of descriptor parsing alone: documents with one component and
\* one basedir record, each key absent (NoneV) or set to one of a few values,
\* with keys that are not allowed at some of the four schema levels.

MaxParseKeys == 3    \* keys set in a document, illegal keys included

ParseNames == {"lib", "run", "extras"}
ParseBasedir == "stage/somedir"

ParseExtends == {NoneV, Str("extras"), Str(""), List(<<>>), List(<<"run", "lib">>)}
ParseIncludes == {NoneV, Str("**/abc"), Str(""), List(<<"**/def", "**/abc">>), List(<<>>)}
ParseExcludes == {NoneV, Str("**/def")}
ParseForceIncludes == {NoneV, List(<<"**/xyz">>)}
ParseDefaultPatterns == {NoneV, Bool(TRUE), Bool(FALSE)}
ParseOptionals ==
    {NoneV, Bool(TRUE), Bool(FALSE), Str("LINUX"), Str("windows"),
     List(<<"Darwin", "linux">>), List(<<>>)}

\* The schema levels, each with a key it does not allow.
IllegalKeyAt(level) ==
    CASE level = "top" -> "component"
      [] level = "options" -> "unmatched"
      [] level = "component" -> "extend"
      [] level = "basedir" -> "includes"
ParseLevels == {"top", "options", "component", "basedir"}

ParseShapes ==
    {sh \in [name : ParseNames, extends : ParseExtends, include : ParseIncludes,
             exclude : ParseExcludes, force_include : ParseForceIncludes,
             default_patterns : ParseDefaultPatterns, optional : ParseOptionals,
             illegal : SUBSET ParseLevels] :
        Cardinality({f \in {"extends", "include", "exclude", "force_include",
                            "default_patterns", "optional"} : ~IsNone(sh[f])})
        + Cardinality(sh.illegal) <= MaxParseKeys}

\* <<KV(key, value)>>, or nothing when the value is absent.
Field(key, value) == IF IsNone(value) THEN <<>> ELSE <<KV(key, value)>>

\* <<KV(the illegal key of the level, "1")>> when the shape has one there.
IllegalField(sh, level) ==
    IF level \in sh.illegal THEN <<KV(IllegalKeyAt(level), Str("1"))>> ELSE <<>>

ParseDocument(sh) ==
    LET basedir_record ==
            Field("include", sh.include) \o Field("exclude", sh.exclude)
            \o Field("force_include", sh.force_include)
            \o Field("default_patterns", sh.default_patterns)
            \o Field("optional", sh.optional) \o IllegalField(sh, "basedir")
        component_record ==
            Field("extends", sh.extends) \o IllegalField(sh, "component")
            \o <<KV(ParseBasedir, Table(basedir_record))>>
    IN  (IF "options" \in sh.illegal
         THEN <<KV("options", Table(IllegalField(sh, "options")))>> ELSE <<>>)
        \o <<KV("components", Table(<<KV(sh.name, Table(component_record))>>))>>
        \o IllegalField(sh, "top")

ParseDocuments == {ParseDocument(sh) : sh \in ParseShapes}

ParseSystems == {"Linux", "Windows", "Darwin"}

----------------------------------------------------------------------------

Init ==
    /\ record \in Documents
    /\ \E t \in Trees : tree = [b \in SeqToSet(Basedirs) |->
                                   IF b = Basedirs[1] THEN t[1] ELSE t[2]]
    /\ system \in PlatformSystems
    /\ pc = "load"
    /\ ad = [components |-> <<>>, options |-> [unmatched_pattern |-> MatchPredicate(<<>>, <<>>, <<>>)]]
    /\ basedir_cache = <<>>
    /\ components = <<>>
    /\ all_entries = <<>>
    /\ matched_relpaths = {}
    /\ missing_basedirs = {}
    /\ worklist = <<>>
    /\ next_worklist = <<>>
    /\ forward_progress = TRUE
    /\ wi = 1
    /\ contents = [name |-> "", component_descriptor |-> [name |-> "", extends |-> <<>>, basedirs |-> <<>>],
                   transitive_relpaths |-> {}, basedir_contents |-> <<>>]
    /\ bi = 1
    /\ pending = {}
    /\ walks = [b \in SeqToSet(Basedirs) |-> 0]
    /\ error = NoError
    /\ passes = 0
    /\ artifact = NoArtifact
    /\ previous = NoRun

Next ==
    \/ Load
    \/ ScannerInit
    \/ WhileWorklist
    \/ DeferComponent
    \/ BeginComponent
    \/ SwapWorklist
    \/ BeginBasedir
    \/ ScanEntry
    \/ EndBasedir
    \/ EndComponent
    \/ verify
    \/ Materialize

Spec == Init /\ [][Next]_vars

\* The same runs, with the classification repeated once.
NextAgain ==
    \/ Next
    \/ ScanAgain

SpecAgain == Init /\ [][NextAgain]_vars

\* The same runs, with the classification repeated once over the document
\* with its component declarations reordered.
NextReordered ==
    \/ Next
    \/ ScanReordered

SpecReordered == Init /\ [][NextReordered]_vars

\* The steps of ComponentScanner.__init__.
Constructor ==
    \/ ScannerInit
    \/ WhileWorklist
    \/ DeferComponent
    \/ BeginComponent
    \/ SwapWorklist
    \/ BeginBasedir
    \/ ScanEntry
    \/ EndBasedir
    \/ EndComponent

\* The constructor is single-threaded and synchronous: once called it takes
\* every step it can take.
SpecFair == Spec /\ WF_vars(Constructor)

\* Descriptor parsing alone, over the parsing inputs.
ParseInit ==
    /\ record \in ParseDocuments
    /\ tree = [b \in SeqToSet(Basedirs) |-> Missing]
    /\ system \in ParseSystems
    /\ pc = "load"
    /\ ad = [components |-> <<>>, options |-> [unmatched_pattern |-> MatchPredicate(<<>>, <<>>, <<>>)]]
    /\ basedir_cache = <<>>
    /\ components = <<>>
    /\ all_entries = <<>>
    /\ matched_relpaths = {}
    /\ missing_basedirs = {}
    /\ worklist = <<>>
    /\ next_worklist = <<>>
    /\ forward_progress = TRUE
    /\ wi = 1
    /\ contents = [name |-> "", component_descriptor |-> [name |-> "", extends |-> <<>>, basedirs |-> <<>>],
                   transitive_relpaths |-> {}, basedir_contents |-> <<>>]
    /\ bi = 1
    /\ pending = {}
    /\ walks = [b \in SeqToSet(Basedirs) |-> 0]
    /\ error = NoError
    /\ passes = 0
    /\ artifact = NoArtifact
    /\ previous = NoRun

ParseNext == Load

ParseSpec == ParseInit /\ [][ParseNext]_vars

----------------------------------------------------------------------------
\* Vocabulary of the properties.

\* The descriptor of a component name, and the names it extends.
IsDeclared(name) == \E i \in 1..Len(ad.components) : ad.components[i].name = name
DescriptorOf(name) ==
    ad.components[CHOOSE i \in 1..Len(ad.components) : ad.components[i].name = name]
ExtendsOf(name) == IF IsDeclared(name) THEN SeqToSet(DescriptorOf(name).extends) ELSE {}

\* The names `name` extends directly or transitively.
RECURSIVE Closure(_, _)
Closure(S, n) ==
    LET T == S \cup UNION {ExtendsOf(x) : x \in S}
    IN  IF n = 0 \/ T = S THEN S ELSE Closure(T, n - 1)
Ancestors(name) == Closure(ExtendsOf(name), Len(ad.components))

Related(x, y) == x \in Ancestors(y) \/ y \in Ancestors(x)

\* The paths a populated component matched itself, over all its basedirs.
Own(c) == AllOf(c.basedir_contents)

\* The own result of a populated component for one basedir.
OwnIn(c, basedir) ==
    UNION {c.basedir_contents[j].all :
              j \in {k \in 1..Len(c.basedir_contents) : c.basedir_contents[k].basedir = basedir}}

Populated == {components[i] : i \in 1..Len(components)}

----------------------------------------------------------------------------
\* C1. Partition under extension: the paths a populated component B matched
\* itself are disjoint from the claimed (transitive) path set of every
\* component A that B extends directly or transitively.
C1_PartitionUnderExtension ==
    \A B \in Populated : \A A \in Populated :
        Own(B) \cap A.transitive_relpaths # {} => A.name \notin Ancestors(B.name)

\* A finished run in which B extends A, A claimed a path of a basedir that B
\* scans too, and B matched something itself.
C1_Witness ==
    /\ pc = "verified"
    /\ \E B \in Populated : \E A \in Populated :
        /\ A.name \in Ancestors(B.name)
        /\ A.transitive_relpaths # {}
        /\ Own(B) # {}
        /\ \E i \in 1..Len(A.basedir_contents) : \E j \in 1..Len(B.basedir_contents) :
              /\ A.basedir_contents[i].basedir = B.basedir_contents[j].basedir
              /\ A.basedir_contents[i].all # {}

\* C2. The claimed (transitive) set of a populated component is the union of
\* the claimed sets of the components of its extends list and its own matched
\* paths; so each extended component's claimed set is a subset of it.
C2_ClaimedIsInheritedPlusOwn ==
    \A C \in Populated :
        /\ \A name \in SeqToSet(C.component_descriptor.extends) : IsPopulated(name)
        /\ C.transitive_relpaths =
              UNION {ComponentGet(name).transitive_relpaths :
                        name \in SeqToSet(C.component_descriptor.extends)}
              \cup Own(C)

\* A populated component with two extended components, a non-empty inherited
\* set and a non-empty own result.
C2_Witness ==
    \E C \in Populated :
        /\ Len(C.component_descriptor.extends) = 2
        /\ Own(C) # {}
        /\ C.transitive_relpaths \ Own(C) # {}

\* C3 as stated: after classification a path of a base directory is owned by
\* at most one component for that base directory, whether or not the
\* components are related by extends.
C3_AtMostOneOwnerPerBasedir ==
    pc \in {"scanned", "verified"} =>
        \A X \in Populated : \A Y \in Populated : \A b \in SeqToSet(Basedirs) :
            X.name # Y.name => OwnIn(X, b) \cap OwnIn(Y, b) = {}

\* C3 amended: a path of a base directory is owned by at most one of any two
\* components one of which extends the other, directly or transitively.
C3_AtMostOneOwnerAmongRelated ==
    pc \in {"scanned", "verified"} =>
        \A X \in Populated : \A Y \in Populated : \A b \in SeqToSet(Basedirs) :
            (X.name # Y.name /\ OwnIn(X, b) \cap OwnIn(Y, b) # {})
                => ~Related(X.name, Y.name)

\* Classification has finished with two related components that scanned the
\* same existing base directory, one of which owns a path of it that the
\* other's predicate matches too.
C3_Witness ==
    /\ pc = "scanned"
    /\ \E X \in Populated : \E Y \in Populated : \E b \in SeqToSet(Basedirs) :
        /\ X.name \in Ancestors(Y.name)
        /\ \E r \in OwnIn(X, b) :
              /\ r \notin OwnIn(Y, b)
              /\ \E j \in 1..Len(Y.component_descriptor.basedirs) :
                    /\ Y.component_descriptor.basedirs[j].basedir_relpath = b
                    /\ matches(Y.component_descriptor.basedirs[j].predicate, r)

\* X extends Y and Y extends X, in the parsed descriptor.
MutualCycle(X, Y) == X # Y /\ Y \in ExtendsOf(X) /\ X \in ExtendsOf(Y)

\* The pairs of component names in a mutual cycle, read off the descriptors.
Cycles == {<<cd[1].name, cd[2].name>> :
              cd \in {c \in SeqToSet(ad.components) \X SeqToSet(ad.components) :
                         /\ c[1].name # c[2].name
                         /\ c[2].name \in SeqToSet(c[1].extends)
                         /\ c[1].name \in SeqToSet(c[2].extends)}}

\* The component names a graph error lists.
NamedInError == {error.illegal_names[i].name : i \in 1..Len(error.illegal_names)}

\* C4 as stated: with X extends Y and Y extends X classification never
\* completes; the failure is a graph error naming X and Y, raised with no
\* component at all classified.
C4_CycleFailsWithNothingClassified ==
    \A p \in Cycles :
        /\ pc \notin {"scanned", "verified"}
        /\ pc = "failed" =>
              /\ error.kind = "graph"
              /\ {p[1], p[2]} \subseteq NamedInError
              /\ components = <<>>

\* C4 amended: with X extends Y and Y extends X classification never
\* completes; the failure is a graph error naming X and Y, raised with neither
\* X nor Y nor any component extending them (directly or transitively)
\* classified.  Components whose extends resolve are classified before it.
C4_CycleFailsWithCycleUnclassified ==
    \A p \in Cycles :
        /\ pc \notin {"scanned", "verified"}
        /\ pc = "failed" =>
              /\ error.kind = "graph"
              /\ {p[1], p[2]} \subseteq NamedInError
              /\ \A c \in Populated :
                    c.name \notin {p[1], p[2]} /\ Ancestors(c.name) \cap {p[1], p[2]} = {}

\* The graph error of a descriptor with a cycle has been raised after a
\* component outside the cycle was classified.
C4_Witness ==
    /\ pc = "failed"
    /\ error.kind = "graph"
    /\ Cycles # {}
    /\ components # <<>>

\* The names of a component's extends list that are not populated.
RECURSIVE Unresolved(_)
Unresolved(extends) ==
    IF extends = <<>> THEN <<>>
    ELSE IF IsPopulated(Head(extends)) THEN Unresolved(Tail(extends))
    ELSE <<Head(extends)>> \o Unresolved(Tail(extends))

Unpopulated == {cd \in SeqToSet(ad.components) : ~IsPopulated(cd.name)}

\* C5 as stated: the graph error of a pass that populated nothing lists every
\* unpopulated component, each with the names of its extends list that are
\* not populated.
C5_ErrorListsUnresolvedExtends ==
    (pc = "failed" /\ error.kind = "graph") =>
        /\ ~forward_progress
        /\ {<<error.illegal_names[i].name, error.illegal_names[i].extends>> :
               i \in 1..Len(error.illegal_names)}
           = {<<cd.name, Unresolved(cd.extends)>> : cd \in Unpopulated}

\* C5 amended: the graph error of a pass that populated nothing lists every
\* unpopulated component, each with its whole extends list (populated names
\* included), all in one error.
C5_ErrorListsWholeExtends ==
    (pc = "failed" /\ error.kind = "graph") =>
        /\ ~forward_progress
        /\ Len(error.illegal_names) = Cardinality(Unpopulated)
        /\ {<<error.illegal_names[i].name, error.illegal_names[i].extends>> :
               i \in 1..Len(error.illegal_names)}
           = {<<cd.name, cd.extends>> : cd \in Unpopulated}

\* A graph error listing two or more components, one of which extends a
\* populated component beside an unresolved name.
C5_Witness ==
    /\ pc = "failed"
    /\ error.kind = "graph"
    /\ Len(error.illegal_names) >= 2
    /\ \E i \in 1..Len(error.illegal_names) :
          /\ \E name \in SeqToSet(error.illegal_names[i].extends) : IsPopulated(name)
          /\ Unresolved(error.illegal_names[i].extends) # <<>>

\* The (component, basedir) pairs of the descriptor whose base directory does
\* not exist under the root and is not optional for that component.
RequiredAbsent ==
    {p \in UNION {{<<cd.name, cd.basedirs[j].basedir_relpath>> : j \in 1..Len(cd.basedirs)} :
                     cd \in SeqToSet(ad.components)} :
        /\ ~tree[p[2]].exists
        /\ ~BasedirDescriptorOf(DescriptorOf(p[1]), p[2]).optional}

\* C6. verify() fails with the required-directory-missing error exactly when
\* some base directory is missing and not optional for a component that
\* references it, and the error names such a component and base directory; a
\* missing base directory that is optional wherever referenced raises nothing.
C6_MissingRequiredIffError ==
    pc = "verified" =>
        /\ error.kind = "missing" <=> RequiredAbsent # {}
        /\ error.kind = "missing" => <<error.component, error.basedir>> \in RequiredAbsent
        /\ \A b \in missing_basedirs : ~tree[b].exists

\* verify() has raised the missing-directory error in a run where another
\* component references a missing base directory as optional.
C6_Witness ==
    /\ pc = "verified"
    /\ error.kind = "missing"
    /\ \E cd \in SeqToSet(ad.components) : \E j \in 1..Len(cd.basedirs) :
          cd.basedirs[j].optional /\ cd.basedirs[j].basedir_relpath \in missing_basedirs

\* The position of a (component, basedir) pair in verify()'s iteration order.
ComponentIndex(name) == CHOOSE i \in 1..Len(components) : components[i].name = name
BasedirIndex(name, basedir) ==
    CHOOSE j \in 1..Len(ComponentGet(name).basedir_contents) :
        ComponentGet(name).basedir_contents[j].basedir = basedir
Before(p, q) ==
    \/ ComponentIndex(p[1]) < ComponentIndex(q[1])
    \/ /\ p[1] = q[1]
       /\ BasedirIndex(p[1], p[2]) < BasedirIndex(q[1], q[2])

C8_EmptyRequiredBasedirFails ==
    (/\ pc = "verified"
     /\ \E cd \in SeqToSet(ad.components) : \E j \in 1..Len(cd.basedirs) :
           /\ ~cd.basedirs[j].optional
           /\ tree[cd.basedirs[j].basedir_relpath].exists
           /\ tree[cd.basedirs[j].basedir_relpath].entries = {})
    => error.kind # "none"

\* The observed, unclaimed, non-directory paths.
ObservedUnclaimedFiles ==
    {r \in DOMAIN all_entries : r \notin matched_relpaths /\ ~all_entries[r].is_dir}

\* C9 as stated: verify() fails with the unmatched-files error exactly when
\* some observed, unclaimed, non-directory path is not covered by
\* unmatched_exclude, and the error lists every such path.
C9_UnmatchedIffNotExcluded ==
    pc = "verified" =>
        LET offending == {r \in ObservedUnclaimedFiles :
                             ~AnyMatches(ad.options.unmatched_pattern.excludes, r)}
        IN  /\ error.kind = "unmatched" <=> offending # {}
            /\ error.kind = "unmatched" => error.relpaths = offending

\* C9 amended: verify() fails with the unmatched-files error exactly when no
\* required-directory-missing error is raised first and some observed,
\* unclaimed, non-directory path matches unmatched_include (or
\* unmatched_include is empty) and no unmatched_exclude pattern; the error
\* lists every such path, so an unmatched_exclude covering them all makes the
\* unmatched check pass.
C9_UnmatchedIffFlaggedAndNoMissing ==
    pc = "verified" =>
        LET inc == ad.options.unmatched_pattern.includes
            exc == ad.options.unmatched_pattern.excludes
            offending == {r \in ObservedUnclaimedFiles :
                             /\ inc = <<>> \/ AnyMatches(inc, r)
                             /\ ~AnyMatches(exc, r)}
        IN  /\ error.kind = "unmatched" <=> (RequiredAbsent = {} /\ offending # {})
            /\ error.kind = "unmatched" => error.relpaths = offending

\* verify() has raised the unmatched-files error listing two files while an
\* unclaimed directory was observed.
C9_Witness ==
    /\ pc = "verified"
    /\ error.kind = "unmatched"
    /\ Cardinality(error.relpaths) >= 2
    /\ \E r \in DOMAIN all_entries : all_entries[r].is_dir /\ r \notin matched_relpaths

\* The entries a populated component met unclaimed in its j-th basedir: those
\* of the scanned tree that are neither inherited nor matched by it in
\* another of its basedirs.
Inherited(C) == C.transitive_relpaths \ Own(C)
MetUnclaimed(C, j) ==
    {e.relpath : e \in tree[C.basedir_contents[j].basedir].entries}
    \ (Inherited(C) \cup UNION {C.basedir_contents[k].all :
                                   k \in 1..Len(C.basedir_contents) \ {j}})

\* C10 as stated: a component claims an entry not already claimed in its
\* extends chain exactly when the entry matches a force-include pattern, or
\* matches an include pattern and no exclude pattern.
C10_ClaimsIffForcedOrIncludedNotExcluded ==
    \A C \in Populated : \A j \in 1..Len(C.basedir_contents) :
        LET predicate == C.component_descriptor.basedirs[j].predicate
        IN  \A r \in MetUnclaimed(C, j) :
                r \in C.basedir_contents[j].all
                <=> \/ AnyMatches(predicate.force_includes, r)
                    \/ /\ AnyMatches(predicate.includes, r)
                       /\ ~AnyMatches(predicate.excludes, r)

\* C10 amended: a component claims an entry not already claimed in its
\* extends chain exactly when the entry matches a force-include pattern, or
\* matches no exclude pattern and either matches an include pattern or the
\* resolved include list is empty.  A path matching a force-include and an
\* exclude pattern is claimed; one matching an include and an exclude pattern
\* and no force-include is not.
C10_ClaimsIffForcedOrPassesIncludeNotExcluded ==
    \A C \in Populated : \A j \in 1..Len(C.basedir_contents) :
        LET predicate == C.component_descriptor.basedirs[j].predicate
        IN  \A r \in MetUnclaimed(C, j) :
                r \in C.basedir_contents[j].all
                <=> \/ AnyMatches(predicate.force_includes, r)
                    \/ /\ predicate.includes = <<>> \/ AnyMatches(predicate.includes, r)
                       /\ ~AnyMatches(predicate.excludes, r)

\* A populated component claimed a path that matches a force-include and an
\* exclude pattern of its basedir.
C10_Witness ==
    \E C \in Populated : \E j \in 1..Len(C.basedir_contents) :
        \E r \in C.basedir_contents[j].all :
            /\ AnyMatches(C.component_descriptor.basedirs[j].predicate.force_includes, r)
            /\ AnyMatches(C.component_descriptor.basedirs[j].predicate.excludes, r)

----------------------------------------------------------------------------
\* The document declares "lib" and no other component, and leaves lib's
\* extends to the registry.
DeclaresOnlyLib ==
    /\ {DocumentComponents[i].k : i \in 1..Len(DocumentComponents)} = {"lib"}
    /\ IsTable(get(DocumentComponents, "lib"))
    /\ ~HasKey(get(DocumentComponents, "lib").kv, "extends")

ParsedOk == pc # "load" /\ error.kind # "schema"

C12_ScanIdempotence ==
    (previous # NoRun /\ pc \in {"scanned", "verified", "written"})
        => ScanResults = previous

\* A second classification has ended over a tree with a populated base
\* directory, with a component that owns a path, a component that inherited
\* one, and an unmatched file.
C12_Witness ==
    /\ previous # NoRun
    /\ pc = "scanned"
    /\ unmatched_files # {}
    /\ \E X \in Populated : \E Y \in Populated :
           /\ Own(X) # {}
           /\ Y.transitive_relpaths \ Own(Y) # {}
    /\ \E b \in DOMAIN basedir_cache : Cardinality(basedir_cache[b]) > 1

C15_AtMostOneWalkPerBasedir ==
    \A b \in DOMAIN walks : walks[b] <= 1

\* Two populated components, neither extending the other, scanned the same
\* existing base directory, which was walked once.
C15_Witness ==
    \E b \in DOMAIN walks :
        /\ walks[b] = 1
        /\ Cardinality({C \in Populated :
               \E j \in 1..Len(C.basedir_contents) : C.basedir_contents[j].basedir = b}) >= 2
        /\ \E X \in Populated : \E Y \in Populated :
               /\ ~Related(X.name, Y.name)
               /\ \E j \in 1..Len(X.basedir_contents) : X.basedir_contents[j].basedir = b
               /\ \E j \in 1..Len(Y.basedir_contents) : Y.basedir_contents[j].basedir = b

\* C20. Topological order: every component named in the extends list of a
\* populated component was stored in the scanner's components map before it,
\* and while a component is being populated every component of its extends
\* list is already in the map.
C20_PopulatedAfterExtends ==
    /\ \A i \in 1..Len(components) :
           \A name \in SeqToSet(components[i].component_descriptor.extends) :
               \E j \in 1..(i - 1) : components[j].name = name
    /\ pc \in {"basedirs", "entries"} =>
           \A name \in SeqToSet(contents.component_descriptor.extends) : IsPopulated(name)

\* Classification has ended for a descriptor that lists a component before
\* one it extends: the component was deferred and populated in a later pass.
C20_Witness ==
    /\ pc = "scanned"
    /\ \E i \in 1..Len(ad.components) : \E j \in 1..Len(ad.components) :
           /\ i < j
           /\ ad.components[j].name \in SeqToSet(ad.components[i].extends)
           /\ IsPopulated(ad.components[i].name)
           /\ Len(ad.components[i].extends) = 2

\* C21. Order independence: classification of a resolvable descriptor with
\* its component declarations permuted converges, populating every component,
\* and yields the same claimed set for every component, the same own result
\* for every base directory of every component and the same aggregate
\* matched set.
C21_OrderIndependence ==
    previous # NoRun =>
        /\ error.kind # "graph"
        /\ pc \in {"scanned", "verified", "written"} =>
               /\ Len(components) = Len(ad.components)
               /\ ScanResults.components = previous.components
               /\ matched_relpaths = previous.matched

\* A classification in another declaration order than the first has ended
\* after three passes or more, two components owning paths.
C21_Witness ==
    /\ previous # NoRun
    /\ pc = "scanned"
    /\ previous.order # DescriptorOrder
    /\ passes >= 3
    /\ \E X \in Populated : \E Y \in Populated :
           X.name # Y.name /\ Own(X) # {} /\ Own(Y) # {}

\* Some component's extends list reaches, directly or transitively, a name
\* that is not a component of the descriptor, or the component itself (a
\* cycle, a self-extend included).
ReachesUndeclared(name) == \E n \in Ancestors(name) : ~IsDeclared(n)
ReachesCycle(name) == \E n \in Ancestors(name) \cup {name} : n \in Ancestors(n)
Unresolvable ==
    \E cd \in SeqToSet(ad.components) : ReachesUndeclared(cd.name) \/ ReachesCycle(cd.name)

\* C22. Classification never fails because a base directory is missing or
\* files are unmatched: the constructor fails only with the graph error, and
\* only for a descriptor whose extends do not resolve; a missing base
\* directory is recorded in the missing set and gives an empty result for the
\* component that references it; every component is classified all the same;
\* the missing-directory and unmatched-files errors come from verify() alone.
C22_DefectsDeferredToVerify ==
    /\ error.kind \in {"missing", "unmatched"} => pc = "verified"
    /\ pc = "failed" => error.kind \in {"schema", "graph"}
    /\ error.kind = "graph" => Unresolvable
    /\ \A C \in Populated : \A j \in 1..Len(C.basedir_contents) :
           ~tree[C.basedir_contents[j].basedir].exists =>
               /\ C.basedir_contents[j].basedir \in missing_basedirs
               /\ C.basedir_contents[j].all = {}
    /\ pc = "scanned" =>
           /\ error = NoError
           /\ \A cd \in SeqToSet(ad.components) : IsPopulated(cd.name)

\* Classification has ended without error over a tree with a missing base
\* directory that is not optional and an unmatched file that the policy
\* flags, a component that scans another base directory owning a path.
C22_Witness ==
    /\ pc = "scanned"
    /\ error = NoError
    /\ RequiredAbsent # {}
    /\ undeclared_relpaths # {}
    /\ \E C \in Populated : Own(C) # {}

\* The relative paths the populated components observed: the entries of the
\* base directories they scanned.  The paths some component owns.  The paths
\* that are directories in the tree.
ObservedPaths ==
    UNION {UNION {{e.relpath : e \in tree[C.basedir_contents[j].basedir].entries} :
                     j \in 1..Len(C.basedir_contents)} : C \in Populated}
ClaimedPaths == UNION {Own(C) : C \in Populated}
IsDirectory(r) == \E b \in SeqToSet(Basedirs) : \E e \in tree[b].entries : e.relpath = r /\ e.is_dir

\* C23. Once classification has ended, unmatched_files is exactly the set of
\* observed paths that no component claimed and that are not directories,
\* whatever the unmatched policy; when verify() passes, the unmatched files
\* are the ones the policy does not flag, and they are still in
\* unmatched_files.
C23_UnmatchedIsObservedMinusClaimed ==
    pc \in {"scanned", "verified", "written"} =>
        /\ unmatched_files =
               {r \in ObservedPaths : r \notin ClaimedPaths /\ ~IsDirectory(r)}
        /\ (pc = "verified" /\ error = NoError) =>
               \A r \in ObservedPaths :
                   (r \notin ClaimedPaths /\ ~IsDirectory(r)
                    /\ ~matches(ad.options.unmatched_pattern, r))
                       => r \in unmatched_files

\* verify() has passed with a file in unmatched_files that an
\* unmatched_exclude pattern covers, an unclaimed directory being observed
\* too.
C23_Witness ==
    /\ pc = "verified"
    /\ error = NoError
    /\ \E r \in unmatched_files : AnyMatches(ad.options.unmatched_pattern.excludes, r)
    /\ \E r \in ObservedPaths : IsDirectory(r) /\ r \notin ClaimedPaths

\* The entries the step takes from pm.matches().
Iterated == IF pc = "entries" THEN pending \ pending' ELSE {}

\* C24. Every entry a component iterates, matched or not, has its relative
\* path in all_entries after the step; a path not recorded before is recorded
\* with that very entry, the first seen; and no step changes or removes the
\* entry recorded for a path.
C24_ObservedRecordedOnceFirstSeen ==
    [][/\ \A r \in DOMAIN all_entries :
              r \in DOMAIN all_entries' /\ all_entries'[r] = all_entries[r]
       /\ \A d \in Iterated :
              /\ d.relpath \in DOMAIN all_entries'
              /\ d.relpath \notin DOMAIN all_entries => all_entries'[d.relpath] = d]_vars

\* Classification has ended with an unmatched path recorded from one base
\* directory that a component of another base directory met too, unclaimed.
C24_Witness ==
    /\ pc = "scanned"
    /\ \E r \in DOMAIN all_entries \ matched_relpaths :
           \E C \in Populated : \E j \in 1..Len(C.basedir_contents) :
               /\ C.basedir_contents[j].basedir # all_entries[r].basedir
               /\ r \in {e.relpath : e \in tree[C.basedir_contents[j].basedir].entries}

\* C25. Once a component's contents are stored, no step changes them: not
\* the population of a later component, one that extends it included, and
\* not verify().
C25_StoredContentsNeverChange ==
    [][\A i \in 1..Len(components) :
           i <= Len(components') /\ components'[i] = components[i]]_vars

\* verify() has run after a component that owns paths was stored following a
\* component it extends, which has a claimed set of its own.
C25_Witness ==
    /\ pc = "verified"
    /\ \E i \in 1..Len(components) : \E j \in 1..Len(components) :
           /\ i < j
           /\ components[i].name \in SeqToSet(components[j].component_descriptor.extends)
           /\ components[i].transitive_relpaths # {}
           /\ Own(components[j]) # {}

\* C26. The constructor ends in the graph error only if some component's
\* extends list reaches, directly or transitively, a name that is not a
\* component of the descriptor or a cycle (a self-extend included), and ends
\* without it only if none does; in that case every descriptor component is
\* populated, and no component is ever populated twice.
C26_GraphErrorIffUnresolvable ==
    /\ error.kind = "graph" => (pc = "failed" /\ Unresolvable)
    /\ pc \in {"scanned", "verified", "written"} =>
           /\ ~Unresolvable
           /\ error.kind # "graph"
           /\ {components[i].name : i \in 1..Len(components)}
                  = {ad.components[i].name : i \in 1..Len(ad.components)}
    /\ \A i \in 1..Len(components) : \A j \in 1..Len(components) :
           components[i].name = components[j].name => i = j

\* The graph error was raised for a descriptor with a component that extends
\* itself, after the components that resolve were populated.
C26_Witness ==
    /\ pc = "failed"
    /\ error.kind = "graph"
    /\ components # <<>>
    /\ \E cd \in SeqToSet(ad.components) : cd.name \in SeqToSet(cd.extends)

\* The constructor has returned or raised.
ConstructorEnded == pc \in {"failed", "scanned", "verified", "written"}

\* C27. The worklist loop terminates: the constructor, once called, ends;
\* it never starts more passes than the descriptor has components, plus
\* one; and every pass ends with a strictly shorter worklist or with
\* forward_progress false, on which the next iteration raises the graph
\* error.
C27_WorklistTerminates ==
    /\ (pc = "init") ~> ConstructorEnded
    /\ [](passes <= Len(ad.components) + 1)
    /\ [][/\ (pc = "for" /\ pc' = "while") =>
                (Len(worklist') < Len(worklist) \/ ~forward_progress)
          /\ (pc = "while" /\ worklist # <<>> /\ ~forward_progress) =>
                (pc' = "failed" /\ error'.kind = "graph")]_vars

\* Classification has ended after three passes or more, components being
\* declared before the components they extend.
C27_Witness ==
    /\ pc = "scanned"
    /\ passes >= 3

\* The base directories the descriptor references, and the predicates the
\* components have for a base directory.
ReferencedBasedirs ==
    UNION {{cd.basedirs[j].basedir_relpath : j \in 1..Len(cd.basedirs)} :
              cd \in SeqToSet(ad.components)}
PredicatesFor(basedir) ==
    UNION {{cd.basedirs[j].predicate :
               j \in {k \in 1..Len(cd.basedirs) : cd.basedirs[k].basedir_relpath = basedir}} :
              cd \in SeqToSet(ad.components)}

\* The files of base directory Q at a relative path that a component owns
\* in another base directory while no component's predicate for Q matches it.
ClaimedElsewhereOnly(Q) ==
    {e.relpath : e \in {f \in tree[Q].entries :
        /\ ~f.is_dir
        /\ \E P \in ReferencedBasedirs \ {Q} : \E C \in Populated : f.relpath \in OwnIn(C, P)
        /\ \A predicate \in PredicatesFor(Q) : ~matches(predicate, f.relpath)}}

\* C28. Ownership and observation are tracked per base directory: once
\* classification has ended, a file of a base directory Q at a relative path
\* that is claimed in another base directory P, and that no component's
\* predicate for Q matches, is in unmatched_files, and verify() checks it
\* against the unmatched policy.
C28_UnmatchedTrackedPerBasedir ==
    pc \in {"scanned", "verified", "written"} =>
        \A Q \in ReferencedBasedirs : \A r \in ClaimedElsewhereOnly(Q) :
            /\ r \in unmatched_files
            /\ (pc = "verified" /\ matches(ad.options.unmatched_pattern, r)) =>
                   error.kind \in {"missing", "unmatched"}

\* _populate_component is running: `contents` is not stored yet.
Populating == pc \in {"basedirs", "entries"}

\* The stored contents and, while a component is populated, its partial ones.
PopulatedOrPartial == Populated \cup (IF Populating THEN {contents} ELSE {})

\* C29. Within one component the own results of two of its base directories
\* share no relative path, during its population and after: a path matched
\* in a base directory is in the component's claimed set, and is skipped in
\* each later base directory of the component.
C29_OwnResultsDisjointAcrossBasedirs ==
    \A C \in PopulatedOrPartial :
        /\ Own(C) \subseteq C.transitive_relpaths
        /\ \A i \in 1..Len(C.basedir_contents) : \A j \in 1..Len(C.basedir_contents) :
               i # j => C.basedir_contents[i].all \cap C.basedir_contents[j].all = {}

\* A component was populated from two existing base directories that both
\* hold a path its predicate matches in both; the first owns it.
C29_Witness ==
    \E C \in Populated :
        /\ Len(C.basedir_contents) = 2
        /\ \E r \in C.basedir_contents[1].all :
               /\ r \in {e.relpath : e \in tree[C.basedir_contents[2].basedir].entries}
               /\ matches(C.component_descriptor.basedirs[2].predicate, r)
               /\ r \notin C.basedir_contents[2].all

\* C30. In every state, during classification and after, the aggregate
\* matched set is a subset of the keys of all_entries and equals the union
\* of the own results of the components populated so far and of the partial
\* result of the component being populated.
C30_MatchedIsUnionOfOwnResults ==
    /\ matched_relpaths \subseteq DOMAIN all_entries
    /\ matched_relpaths = UNION {Own(C) : C \in PopulatedOrPartial}

\* A component is being populated and has matched a path, after another
\* component that owns a path, an observed path being unmatched.
C30_Witness ==
    /\ pc = "entries"
    /\ Own(contents) # {}
    /\ \E C \in Populated : Own(C) # {} /\ Own(C) # Own(contents)
    /\ DOMAIN all_entries \ matched_relpaths # {}

----------------------------------------------------------------------------
\* Properties of descriptor parsing, read off the document.

\* The (key, allowed key set) pairs of the document's keys that are not
\* allowed where they stand: at the top level, in the options table, among a
\* component's fields that are not tables, and in a basedir record.
IllegalKeysOf ==
    LET KeysOf(kv, allowed) ==
            {<<kv[i].k, allowed>> : i \in {j \in 1..Len(kv) : kv[j].k \notin allowed}}
        options == IF HasKey(record, "options") /\ IsTable(get(record, "options"))
                   THEN get(record, "options").kv ELSE <<>>
        OfComponent(crec) ==
            KeysOf(SelectPairs(crec, FALSE), COMPONENT_ALLOWED_KEYS)
            \cup UNION {KeysOf(crec[i].v.kv, BASEDIR_ALLOWED_KEYS) :
                           i \in {j \in 1..Len(crec) : IsTable(crec[j].v)}}
    IN  KeysOf(record, ARTIFACT_ALLOWED_KEYS)
        \cup KeysOf(options, OPTIONS_ALLOWED_KEYS)
        \cup UNION {OfComponent(DocumentComponents[i].v.kv) :
                       i \in {j \in 1..Len(DocumentComponents) :
                                 IsTable(DocumentComponents[j].v)}}

\* C16. A document with a key that is not allowed at its schema level does
\* not parse: loading fails with a schema error that names one of the
\* offending keys together with the allowed key set of its level, and no
\* descriptor is produced.
C16_IllegalKeyFailsParse ==
    (pc # "load" /\ IllegalKeysOf # {}) =>
        /\ pc = "failed"
        /\ error.kind = "schema"
        /\ error.detail.kind = "illegal_key"
        /\ <<error.detail.key, error.detail.allowed>> \in IllegalKeysOf
        /\ ad.components = <<>>

\* Loading failed on a document with an illegal key among a component's
\* fields and another in its basedir record; the error names the first.
C16_Witness ==
    /\ pc = "failed"
    /\ Cardinality(IllegalKeysOf) = 2
    /\ error.detail.key = IllegalKeyAt("component")
    /\ <<IllegalKeyAt("basedir"), BASEDIR_ALLOWED_KEYS>> \in IllegalKeysOf

\* The "extends" value the document gives a component, or NoneV.
ExplicitExtends(name) ==
    IF DocumentDeclares(name) /\ IsTable(get(DocumentComponents, name))
    THEN get(get(DocumentComponents, name).kv, "extends")
    ELSE NoneV

\* C17 as stated: the resolved extends list of a component is its explicit
\* "extends" value when one is given, any single string as a one-element
\* list and a list kept in order, and otherwise the registry default extends
\* of its name, empty for a name not in the registry.
C17_ExtendsIsExplicitElseDefault ==
    ParsedOk =>
        \A cd \in SeqToSet(ad.components) :
            LET v == ExplicitExtends(cd.name)
            IN  cd.extends = IF IsNone(v) THEN DefaultExtends(cd.name)
                             ELSE IF IsStr(v) THEN <<v.s>>
                             ELSE v.l

\* C17 amended: the resolved extends list of a component is its explicit
\* "extends" value when one is given, a non-empty string as a one-element
\* list, an empty string as the empty list and a list kept in order, and
\* otherwise the registry default extends of its name, empty for a name not
\* in the registry.
C17_ExtendsIsExplicitNonEmptyElseDefault ==
    ParsedOk =>
        \A cd \in SeqToSet(ad.components) :
            LET v == ExplicitExtends(cd.name)
            IN  cd.extends = IF IsNone(v) THEN DefaultExtends(cd.name)
                             ELSE IF IsStr(v) THEN (IF v.s = "" THEN <<>> ELSE <<v.s>>)
                             ELSE v.l

\* A document parsed whose component gives a two-name extends list, beside a
\* registry component left to its non-empty default.
C17_Witness ==
    /\ ParsedOk
    /\ \E cd \in SeqToSet(ad.components) :
           /\ IsList(ExplicitExtends(cd.name))
           /\ Len(cd.extends) = 2
    /\ \E cd \in SeqToSet(ad.components) :
           /\ IsNone(ExplicitExtends(cd.name))
           /\ cd.extends # <<>>

\* The record the document gives a base directory of a component.
BasedirRecord(name, basedir) == get(get(DocumentComponents, name).kv, basedir).kv

\* The patterns a record value gives: none when absent or an empty string,
\* the string, the items of the list.
ExplicitPatterns(v) ==
    IF IsNone(v) THEN <<>>
    ELSE IF IsStr(v) THEN (IF v.s = "" THEN <<>> ELSE <<v.s>>)
    ELSE v.l

\* C18. For every basedir record the resolved include list is the explicit
\* include patterns followed by the registry include patterns of the
\* component, and likewise for exclude, when default_patterns is true or
\* absent; both hold only the explicit patterns when default_patterns is
\* false; the force-include list always holds only the explicit
\* force_include patterns.
C18_ExplicitThenRegistryPatterns ==
    ParsedOk =>
        \A cd \in SeqToSet(ad.components) : \A j \in 1..Len(cd.basedirs) :
            LET rec == BasedirRecord(cd.name, cd.basedirs[j].basedir_relpath)
                dp == get(rec, "default_patterns")
                useDefaults == IsNone(dp) \/ (IsBool(dp) /\ dp.b)
                predicate == cd.basedirs[j].predicate
            IN  /\ predicate.includes =
                       ExplicitPatterns(get(rec, "include"))
                       \o (IF useDefaults THEN DefaultIncludes(cd.name) ELSE <<>>)
                /\ predicate.excludes =
                       ExplicitPatterns(get(rec, "exclude"))
                       \o (IF useDefaults THEN DefaultExcludes(cd.name) ELSE <<>>)
                /\ predicate.force_includes = ExplicitPatterns(get(rec, "force_include"))

\* A record of "lib" parsed with two explicit include patterns, an explicit
\* force_include and the registry patterns in use.
C18_Witness ==
    /\ ParsedOk
    /\ \E cd \in SeqToSet(ad.components) : \E j \in 1..Len(cd.basedirs) :
           LET rec == BasedirRecord(cd.name, cd.basedirs[j].basedir_relpath)
           IN  /\ cd.name = "lib"
               /\ Len(ExplicitPatterns(get(rec, "include"))) = 2
               /\ get(rec, "force_include") # NoneV
               /\ Len(cd.basedirs[j].predicate.includes) > 2

\* The spellings of each platform name.
PlatformSpellings ==
    {{"Linux", "LINUX", "linux"}, {"Windows", "WINDOWS", "windows"},
     {"Darwin", "DARWIN", "darwin"}}

\* Two names are equal up to the case of their letters.
SameIgnoringCase(a, b) == a = b \/ \E S \in PlatformSpellings : a \in S /\ b \in S

\* C19. The optional flag of a base directory is false when the record has
\* no "optional", the boolean itself when it is a boolean, and for a platform
\* string or a list of platform strings true exactly when the current OS name
\* equals one of them up to case.
C19_OptionalResolution ==
    ParsedOk =>
        \A cd \in SeqToSet(ad.components) : \A j \in 1..Len(cd.basedirs) :
            LET v == get(BasedirRecord(cd.name, cd.basedirs[j].basedir_relpath), "optional")
            IN  cd.basedirs[j].optional =
                    IF IsNone(v) THEN FALSE
                    ELSE IF IsBool(v) THEN v.b
                    ELSE IF IsStr(v) THEN SameIgnoringCase(v.s, system)
                    ELSE \E i \in 1..Len(v.l) : SameIgnoringCase(v.l[i], system)

\* A record parsed as optional because its platform list names the current
\* OS in another case.
C19_Witness ==
    /\ ParsedOk
    /\ \E cd \in SeqToSet(ad.components) : \E j \in 1..Len(cd.basedirs) :
           LET v == get(BasedirRecord(cd.name, cd.basedirs[j].basedir_relpath), "optional")
           IN  /\ IsList(v)
               /\ cd.basedirs[j].optional
               /\ system \notin SeqToSet(v.l)

====
